---- MODULE Spec2Model ----
(***************************************************************************)
(* Model of the text-analysis engine of src/src/main.rs: the tokenizer     *)
(* (word_pattern, sentence_pattern), count_syllables, is_complex_word,     *)
(* analyze_text and the four readability formulas.                         *)
(*                                                                         *)
(* A string is a sequence of Unicode code points.  A usize is an integer   *)
(* modulo 2^UsizeBits; arithmetic on it either panics (overflow checks on, *)
(* the debug profile) or wraps (overflow checks off, the release profile). *)
(* An f64 is a fixed-point number of thousandths, or NaN, or +infinity.    *)
(***************************************************************************)
EXTENDS Integers, Sequences, FiniteSets

VARIABLES fn, text, word, overflow_checks, pc, tokens, metrics, syllables

vars == <<fn, text, word, overflow_checks, pc, tokens, metrics, syllables>>

(***************************************************************************)
(* Bounds of the model.                                                    *)
(***************************************************************************)
MaxPieces == 3
MaxWordLen == 4
MaxLongTail == 1
UsizeBits == 12

UsizeModulus == 2 ^ UsizeBits

(***************************************************************************)
(* Characters.                                                             *)
(***************************************************************************)
AsciiUpper == 65..90
AsciiLower == 97..122
AsciiLetters == AsciiUpper \cup AsciiLower
AsciiDigits == 48..57
\* the non-ASCII letters of the model: E-acute (201) and e-acute (233)
NonAsciiUpper == {201}
NonAsciiLower == {233}
Underscore == {95}
\* [aeiouy]
VowelClass == {97, 101, 105, 111, 117, 121}
\* [.!?]
TerminatorClass == {46, 33, 63}

\* char::is_alphabetic
is_alphabetic(c) == c \in AsciiLetters \cup NonAsciiUpper \cup NonAsciiLower

\* the regex class \w (Unicode): letters, digits, underscore
is_word_char(c) == is_alphabetic(c) \/ c \in AsciiDigits \/ c \in Underscore

\* char::to_lowercase
char_to_lowercase(c) ==
    IF c \in AsciiUpper \cup NonAsciiUpper THEN c + 32 ELSE c

\* str::to_lowercase
to_lowercase(s) == [i \in 1..Len(s) |-> char_to_lowercase(s[i])]

\* str::ends_with
ends_with(s, suffix) ==
    /\ Len(suffix) <= Len(s)
    /\ SubSeq(s, Len(s) - Len(suffix) + 1, Len(s)) = suffix

\* str::trim_matches(|c| !c.is_alphabetic())
trim_matches(s) ==
    LET alpha == {i \in 1..Len(s) : is_alphabetic(s[i])}
    IN  IF alpha = {} THEN <<>>
        ELSE LET first == CHOOSE i \in alpha : \A j \in alpha : i <= j
                 last == CHOOSE i \in alpha : \A j \in alpha : j <= i
             IN  SubSeq(s, first, last)

(***************************************************************************)
(* Regex matching.  Offsets are 0-based: offset p lies between s[p] and    *)
(* s[p+1].                                                                 *)
(***************************************************************************)
\* length of the greedy match of class+ starting at offset p
RECURSIVE RunLen(_, _, _)
RunLen(s, p, class) ==
    IF p < Len(s) /\ s[p + 1] \in class
    THEN 1 + RunLen(s, p + 1, class)
    ELSE 0

\* find_iter(...).count() of class{min,}: leftmost, greedy, non-overlapping
RECURSIVE CountMatches(_, _, _, _)
CountMatches(s, p, class, min) ==
    IF p >= Len(s) THEN 0
    ELSE LET n == RunLen(s, p, class)
         IN  IF n >= min
             THEN 1 + CountMatches(s, p + n, class, min)
             ELSE CountMatches(s, p + 1, class, min)

\* the assertion \b at offset p
is_word_boundary(s, p) ==
    LET before == p >= 1 /\ is_word_char(s[p])
        after == p < Len(s) /\ is_word_char(s[p + 1])
    IN  before # after

\* lengths k at which \b[a-zA-Z]+\b matches at offset p
WordMatchLens(s, p) ==
    IF is_word_boundary(s, p)
    THEN {k \in 1..RunLen(s, p, AsciiLetters) : is_word_boundary(s, p + k)}
    ELSE {}

\* word_pattern.find_iter(text).map(|m| m.as_str()).collect()
RECURSIVE word_find_iter(_, _)
word_find_iter(s, p) ==
    IF p >= Len(s) THEN <<>>
    ELSE LET lens == WordMatchLens(s, p)
         IN  IF lens = {}
             THEN word_find_iter(s, p + 1)
             ELSE LET k == CHOOSE x \in lens : \A y \in lens : y <= x
                  IN  <<SubSeq(s, p + 1, p + k)>> \o word_find_iter(s, p + k)

\* sentence_pattern.find_iter(text).count()
sentence_find_count(s) == CountMatches(s, 0, TerminatorClass, 1)

(***************************************************************************)
(* usize arithmetic.                                                       *)
(***************************************************************************)
Panic == [panic |-> TRUE, value |-> 0]
Ok(v) == [panic |-> FALSE, value |-> v]

\* a - b
usize_sub(a, b, checks) ==
    IF b <= a THEN Ok(a - b)
    ELSE IF checks THEN Panic
    ELSE Ok(a - b + UsizeModulus)

\* a + b
usize_add(a, b, checks) ==
    IF a + b < UsizeModulus THEN Ok(a + b)
    ELSE IF checks THEN Panic
    ELSE Ok(a + b - UsizeModulus)

usize_max(a, b) == IF a >= b THEN a ELSE b

(***************************************************************************)
(* f64 values: thousandths (truncated), NaN, or an infinity.               *)
(***************************************************************************)
F64(v) == [cls |-> "fin", milli |-> v]
NaN == [cls |-> "nan", milli |-> 0]
PosInf == [cls |-> "inf", milli |-> 0]
NegInf == [cls |-> "ninf", milli |-> 0]
Zero == F64(0)

\* k * (a as f64 / b as f64), k given in thousandths
f64_ratio(k, a, b) ==
    IF b = 0 THEN (IF a = 0 THEN NaN ELSE PosInf)
    ELSE F64(k * (a \div b) + (k * (a % b)) \div b)

f64_neg(x) ==
    IF x.cls = "fin" THEN F64(0 - x.milli)
    ELSE IF x.cls = "inf" THEN NegInf
    ELSE IF x.cls = "ninf" THEN PosInf
    ELSE NaN

f64_add(x, y) ==
    IF x.cls = "nan" \/ y.cls = "nan" THEN NaN
    ELSE IF x.cls = "fin" /\ y.cls = "fin" THEN F64(x.milli + y.milli)
    ELSE IF x.cls = "fin" THEN y
    ELSE IF y.cls = "fin" THEN x
    ELSE IF x.cls = y.cls THEN x
    ELSE NaN

f64_sub(x, y) == f64_add(x, f64_neg(y))

\* floor of the square root of n, searched in lo..hi
RECURSIVE isqrt_in(_, _, _)
isqrt_in(n, lo, hi) ==
    IF lo >= hi THEN lo
    ELSE LET mid == (lo + hi + 1) \div 2
         IN  IF mid * mid <= n
             THEN isqrt_in(n, mid, hi)
             ELSE isqrt_in(n, lo, mid - 1)

\* f64::sqrt of a value of thousandths, in thousandths
f64_sqrt_milli(x) == isqrt_in(x * 1000, 0, 46340)

(***************************************************************************)
(* The syllable estimator and the complex-word classifier.                 *)
(***************************************************************************)
cleaned(w) == to_lowercase(trim_matches(w))

count_syllables(w, checks) ==
    LET cleaned_word == cleaned(w)
    IN  IF cleaned_word = <<>> THEN Ok(0)
        ELSE LET count0 == CountMatches(cleaned_word, 0, VowelClass, 1)
                 silent_e == /\ ends_with(cleaned_word, <<101>>)
                             /\ count0 > 1
                             /\ ~ends_with(cleaned_word, <<108, 101>>)
                 count1 == IF silent_e THEN usize_sub(count0, 1, checks)
                           ELSE Ok(count0)
                 consecutive_vowels == CountMatches(cleaned_word, 0, VowelClass, 2)
                 count2 == IF count1.panic THEN Panic
                           ELSE usize_sub(count1.value, consecutive_vowels, checks)
             IN  IF count2.panic THEN Panic
                 ELSE Ok(usize_max(count2.value, 1))

\* is_complex_word with the word not lowercased
is_complex_word_case_sensitive(w, syllable_count) ==
    LET cleaned_word == trim_matches(w)
    IN  /\ syllable_count >= 3
        /\ ~ends_with(cleaned_word, <<101, 100>>)
        /\ ~ends_with(cleaned_word, <<101, 115>>)
        /\ ~ends_with(cleaned_word, <<105, 110, 103>>)

is_complex_word(w, syllable_count) ==
    LET cleaned_word == cleaned(w)
    IN  /\ syllable_count >= 3
        /\ ~ends_with(cleaned_word, <<101, 100>>)
        /\ ~ends_with(cleaned_word, <<101, 115>>)
        /\ ~ends_with(cleaned_word, <<105, 110, 103>>)

(***************************************************************************)
(* The readability formulas.                                               *)
(***************************************************************************)
\* calculate_gunning_fog guarded by words == 0 && sentences == 0
calculate_gunning_fog_and_guard(words, sentences, complex_words) ==
    IF words = 0 /\ sentences = 0 THEN Zero
    ELSE f64_add(f64_ratio(400, words, sentences),
                 f64_ratio(40000, complex_words, words))

calculate_gunning_fog(words, sentences, complex_words) ==
    IF words = 0 \/ sentences = 0 THEN Zero
    ELSE f64_add(f64_ratio(400, words, sentences),
                 f64_ratio(40000, complex_words, words))

calculate_flesch_kincaid_grade(words, sentences, syllable_count) ==
    IF words = 0 \/ sentences = 0 THEN Zero
    ELSE f64_sub(f64_add(f64_ratio(390, words, sentences),
                         f64_ratio(11800, syllable_count, words)),
                 F64(15590))

calculate_flesch_reading_ease(words, sentences, syllable_count) ==
    IF words = 0 \/ sentences = 0 THEN Zero
    ELSE f64_sub(f64_sub(F64(206835), f64_ratio(1015, words, sentences)),
                 f64_ratio(84600, syllable_count, words))

smog_formula(sentences, complex_words) ==
    LET radicand == f64_ratio(complex_words * 1000, 30, sentences)
    IN  IF radicand.cls # "fin" THEN radicand
        ELSE F64((1043 * f64_sqrt_milli(radicand.milli)) \div 1000 + 3129)

\* calculate_smog guarded by sentences > 30
calculate_smog_gate_inverted(sentences, complex_words) ==
    IF sentences > 30 THEN Zero
    ELSE smog_formula(sentences, complex_words)

calculate_smog(sentences, complex_words) ==
    IF sentences < 30 THEN Zero
    ELSE smog_formula(sentences, complex_words)

(***************************************************************************)
(* analyze_text.                                                           *)
(***************************************************************************)
\* the word pattern without its closing \b
RECURSIVE word_find_iter_open(_, _)
word_find_iter_open(s, p) ==
    IF p >= Len(s) THEN <<>>
    ELSE LET k == RunLen(s, p, AsciiLetters)
         IN  IF is_word_boundary(s, p) /\ k >= 1
             THEN <<SubSeq(s, p + 1, p + k)>> \o word_find_iter_open(s, p + k)
             ELSE word_find_iter_open(s, p + 1)

extract_words_open(t) == word_find_iter_open(t, 0)

extract_words(t) == word_find_iter(t, 0)

\* the sentence pattern without its +
sentence_count_per_char(t) ==
    usize_max(Cardinality({i \in 1..Len(t) : t[i] \in TerminatorClass}), 1)

sentence_count_of(t) == usize_max(sentence_find_count(t), 1)

character_count_of(t) == Cardinality({i \in 1..Len(t) : is_alphabetic(t[i])})

LoopPanic == [panic |-> TRUE, syllable_count |-> 0, complex_word_count |-> 0]

\* the for loop over the words, from index i on
RECURSIVE analyze_loop(_, _, _, _, _)
analyze_loop(words, i, syllable_count, complex_word_count, checks) ==
    IF i > Len(words)
    THEN [panic |-> FALSE, syllable_count |-> syllable_count,
          complex_word_count |-> complex_word_count]
    ELSE LET word_syllables == count_syllables(words[i], checks)
         IN  IF word_syllables.panic THEN LoopPanic
             ELSE LET sum == usize_add(syllable_count, word_syllables.value, checks)
                      cx == IF is_complex_word(words[i], word_syllables.value)
                            THEN usize_add(complex_word_count, 1, checks)
                            ELSE Ok(complex_word_count)
                  IN  IF sum.panic \/ cx.panic THEN LoopPanic
                      ELSE analyze_loop(words, i + 1, sum.value, cx.value, checks)

NoMetrics == [word_count |-> 0, sentence_count |-> 0, syllable_count |-> 0,
              complex_word_count |-> 0, character_count |-> 0,
              gunning_fog_index |-> Zero, flesch_kincaid_grade |-> Zero,
              flesch_reading_ease |-> Zero, smog_index |-> Zero,
              average_words_per_sentence |-> Zero,
              average_syllables_per_word |-> Zero]

\* the TextMetrics literal analyze_text returns, given its locals
text_metrics(word_count, sentence_count, syllable_count, complex_word_count, character_count) ==
    [word_count |-> word_count,
     sentence_count |-> sentence_count,
     syllable_count |-> syllable_count,
     complex_word_count |-> complex_word_count,
     character_count |-> character_count,
     gunning_fog_index |->
        calculate_gunning_fog(word_count, sentence_count, complex_word_count),
     flesch_kincaid_grade |->
        calculate_flesch_kincaid_grade(word_count, sentence_count, syllable_count),
     flesch_reading_ease |->
        calculate_flesch_reading_ease(word_count, sentence_count, syllable_count),
     smog_index |-> calculate_smog(sentence_count, complex_word_count),
     average_words_per_sentence |-> f64_ratio(1000, word_count, sentence_count),
     average_syllables_per_word |->
        IF word_count > 0
        THEN f64_ratio(1000, syllable_count, word_count)
        ELSE Zero]

\* analyze_text after its loop
analyze_result(t, words, loop) ==
    IF loop.panic
    THEN [panic |-> TRUE, words |-> words, metrics |-> NoMetrics]
    ELSE [panic |-> FALSE,
          words |-> words,
          metrics |-> text_metrics(Len(words), sentence_count_of(t),
                                   loop.syllable_count, loop.complex_word_count,
                                   character_count_of(t))]

analyze_words(t, words, checks) ==
    analyze_result(t, words, analyze_loop(words, 1, 0, 0, checks))

analyze_text(t, checks) == analyze_words(t, extract_words(t), checks)

(***************************************************************************)
(* Inputs.                                                                 *)
(***************************************************************************)
RECURSIVE Repeat(_, _)
Repeat(s, n) == IF n = 0 THEN <<>> ELSE s \o Repeat(s, n - 1)

RECURSIVE Concat(_)
Concat(ps) == IF ps = <<>> THEN <<>> ELSE Head(ps) \o Concat(Tail(ps))

W_cat == <<99, 97, 116>>
W_water == <<119, 97, 116, 101, 114>>
W_beautiful == <<98, 101, 97, 117, 116, 105, 102, 117, 108>>
W_cookie == <<99, 111, 111, 107, 105, 101>>
W_goatee == <<103, 111, 97, 116, 101, 101>>
W_banana == <<98, 97, 110, 97, 110, 97>>
W_ANIMATED == <<65, 78, 73, 77, 65, 84, 69, 68>>
W_analyses == <<97, 110, 97, 108, 121, 115, 101, 115>>
W_Opening == <<79, 112, 101, 110, 105, 110, 103>>
\* one sentence: "a?"
OneSentence == <<97, 63>>

\* the pieces a text is put together from: words, " ", ".", "!", "1", "_"
\* and e-acute
Pieces == {W_cat, W_cookie, W_banana, W_ANIMATED, W_analyses, W_Opening,
           <<32>>, <<46>>, <<33>>, <<49>>, <<95>>, <<233>>}

PieceSeqs(n) == UNION {[1..k -> Pieces] : k \in 0..n}

\* short texts, and texts of 29 to 31 sentences followed by a short tail
TextInputs ==
    {Concat(ps) : ps \in PieceSeqs(MaxPieces)}
        \cup {Repeat(OneSentence, n) \o Concat(ps) :
                n \in {29, 30, 31}, ps \in PieceSeqs(MaxLongTail)}

\* the letters a word is put together from: a e l b E 1
WordAlphabet == {97, 101, 108, 98, 69, 49}

WordInputs ==
    UNION {[1..n -> WordAlphabet] : n \in 0..MaxWordLen}
        \cup {W_cat, W_water, W_beautiful, W_cookie, W_goatee, W_banana}

(***************************************************************************)
(* The state machine: one call of analyze_text or of count_syllables, in a *)
(* build with or without overflow checks.                                  *)
(***************************************************************************)
Init ==
    /\ overflow_checks \in BOOLEAN
    /\ pc = "ready"
    /\ tokens = <<>>
    /\ metrics = NoMetrics
    /\ syllables = 0
    /\ \/ fn = "analyze_text" /\ text \in TextInputs /\ word = <<>>
       \/ fn = "count_syllables" /\ word \in WordInputs /\ text = <<>>

AnalyzeTextReturn ==
    /\ pc = "ready" /\ fn = "analyze_text"
    /\ LET r == analyze_text(text, overflow_checks)
       IN  /\ ~r.panic
           /\ tokens' = r.words
           /\ metrics' = r.metrics
    /\ pc' = "returned"
    /\ UNCHANGED <<fn, text, word, overflow_checks, syllables>>

AnalyzeTextPanic ==
    /\ pc = "ready" /\ fn = "analyze_text"
    /\ analyze_text(text, overflow_checks).panic
    /\ pc' = "panicked"
    /\ UNCHANGED <<fn, text, word, overflow_checks, tokens, metrics, syllables>>

CountSyllablesReturn ==
    /\ pc = "ready" /\ fn = "count_syllables"
    /\ LET r == count_syllables(word, overflow_checks)
       IN  /\ ~r.panic
           /\ syllables' = r.value
    /\ pc' = "returned"
    /\ UNCHANGED <<fn, text, word, overflow_checks, tokens, metrics>>

CountSyllablesPanic ==
    /\ pc = "ready" /\ fn = "count_syllables"
    /\ count_syllables(word, overflow_checks).panic
    /\ pc' = "panicked"
    /\ UNCHANGED <<fn, text, word, overflow_checks, tokens, metrics, syllables>>

Next ==
    \/ AnalyzeTextReturn
    \/ AnalyzeTextPanic
    \/ CountSyllablesReturn
    \/ CountSyllablesPanic

Spec == Init /\ [][Next]_vars

(***************************************************************************)
(* Notions the properties are stated with.                                 *)
(***************************************************************************)
\* the indices at which a maximal run of characters of class starts
RunStarts(s, class) ==
    {i \in 1..Len(s) : s[i] \in class /\ (i = 1 \/ s[i - 1] \notin class)}

\* the index at which the maximal run starting at i ends
RunEnd(s, class, i) ==
    CHOOSE j \in i..Len(s) :
        /\ \A k \in i..j : s[k] \in class
        /\ j = Len(s) \/ s[j + 1] \notin class

\* the runs starting at the indices of starts, in order of appearance
RunsInOrder(s, class, starts) ==
    [n \in 1..Cardinality(starts) |->
        LET i == CHOOSE x \in starts : Cardinality({y \in starts : y < x}) = n - 1
        IN  SubSeq(s, i, RunEnd(s, class, i))]

MaximalLetterRuns(s) == RunsInOrder(s, AsciiLetters, RunStarts(s, AsciiLetters))

\* the maximal letter runs with no word character next to them
DelimitedStarts(s) ==
    {i \in RunStarts(s, AsciiLetters) :
        /\ i = 1 \/ ~is_word_char(s[i - 1])
        /\ LET j == RunEnd(s, AsciiLetters, i)
           IN  j = Len(s) \/ ~is_word_char(s[j + 1])}

DelimitedLetterRuns(s) == RunsInOrder(s, AsciiLetters, DelimitedStarts(s))

IsAsciiWord(w) == Len(w) >= 1 /\ \A i \in 1..Len(w) : w[i] \in AsciiLetters

HasTerminator(s) == \E i \in 1..Len(s) : s[i] \in TerminatorClass

Returned(f) == fn = f /\ pc = "returned"
Finished(f) == fn = f /\ pc # "ready"

\* steps 2 to 4 of the estimator over the integers: R, E and L
VowelRunCount(w) == Cardinality(RunStarts(to_lowercase(w), VowelClass))

SilentE(w) ==
    LET lw == to_lowercase(w)
    IN  IF /\ lw[Len(lw)] = 101
           /\ VowelRunCount(w) > 1
           /\ ~(Len(lw) >= 2 /\ lw[Len(lw) - 1] = 108)
        THEN 1 ELSE 0

LongVowelRunCount(w) ==
    LET lw == to_lowercase(w)
    IN  Cardinality({i \in RunStarts(lw, VowelClass) :
                        RunEnd(lw, VowelClass, i) - i + 1 >= 2})

IntegerEstimate(w) ==
    LET d == VowelRunCount(w) - SilentE(w) - LongVowelRunCount(w)
    IN  IF d >= 1 THEN d ELSE 1

\* the lowercased word ends in "ed", "es" or "ing"
HasInflection(w) ==
    LET lw == to_lowercase(w)
        n == Len(lw)
    IN  \/ n >= 2 /\ lw[n - 1] = 101 /\ lw[n] \in {100, 115}
        \/ n >= 3 /\ lw[n - 2] = 105 /\ lw[n - 1] = 110 /\ lw[n] = 103

(***************************************************************************)
(* C1: analyze_text is total: every call completes and returns a           *)
(* TextMetrics record, none panics.                                        *)
(***************************************************************************)
C1_AnalyzeTextTotal == fn = "analyze_text" => pc # "panicked"

(***************************************************************************)
(* C2: for every word of one or more ASCII letters count_syllables returns *)
(* an integer >= 1; it returns 0 only when the word is empty after         *)
(* trimming the non-alphabetic characters.                                 *)
(***************************************************************************)
C2_SyllablesAtLeastOne ==
    Finished("count_syllables") =>
        /\ IsAsciiWord(word) => pc = "returned" /\ syllables >= 1
        /\ pc = "returned" /\ syllables = 0 => trim_matches(word) = <<>>

(***************************************************************************)
(* C3: count_syllables("cat") = 1, count_syllables("water") = 2 and        *)
(* count_syllables("beautiful") = 3.                                       *)
(***************************************************************************)
C3_TestSyllableCounting ==
    Finished("count_syllables") =>
        /\ word = W_cat => pc = "returned" /\ syllables = 1
        /\ word = W_water => pc = "returned" /\ syllables = 2
        /\ word = W_beautiful => pc = "returned" /\ syllables = 3

(***************************************************************************)
(* C4 as stated: the word tokens are exactly the maximal runs of ASCII     *)
(* letters of the text, in order, and word_count is their number.          *)
(***************************************************************************)
C4_WordsAreMaximalLetterRuns ==
    Returned("analyze_text") =>
        /\ tokens = MaximalLetterRuns(text)
        /\ metrics.word_count = Len(MaximalLetterRuns(text))

(***************************************************************************)
(* C4 as amended: the word tokens are exactly the maximal runs of ASCII    *)
(* letters that have no word character (letter, digit, underscore) next to *)
(* them, in order of appearance with duplicates retained, and word_count   *)
(* is their number.                                                        *)
(***************************************************************************)
C4_WordsAreDelimitedLetterRuns ==
    Returned("analyze_text") =>
        /\ tokens = DelimitedLetterRuns(text)
        /\ metrics.word_count = Len(DelimitedLetterRuns(text))

\* a text with a letter run next to a word character has been tokenized
C4_Witness ==
    /\ Returned("analyze_text")
    /\ Len(tokens) < Len(MaximalLetterRuns(text))
    /\ tokens = DelimitedLetterRuns(text)

(***************************************************************************)
(* C5: sentence_count is the number of maximal runs of characters of       *)
(* . ! ? in the text, floored at 1.                                        *)
(***************************************************************************)
C5_SentenceCount ==
    Returned("analyze_text") =>
        LET runs == Cardinality(RunStarts(text, TerminatorClass))
        IN  /\ metrics.sentence_count = IF runs >= 1 THEN runs ELSE 1
            /\ metrics.sentence_count >= 1

\* several runs of terminators, one of them of several characters
C5_Witness ==
    /\ Returned("analyze_text")
    /\ metrics.sentence_count >= 2
    /\ \E i \in 1..(Len(text) - 1) :
          text[i] \in TerminatorClass /\ text[i + 1] \in TerminatorClass
    /\ metrics.sentence_count = Cardinality(RunStarts(text, TerminatorClass))

(***************************************************************************)
(* C6: a text with no word token and no terminator yields word_count 0,    *)
(* sentence_count 1, the four scores 0.0 and average_syllables_per_word    *)
(* 0.0, and no division by zero.                                           *)
(***************************************************************************)
C6_DegenerateInput ==
    (Returned("analyze_text") /\ tokens = <<>> /\ ~HasTerminator(text)) =>
        /\ metrics.word_count = 0
        /\ metrics.sentence_count = 1
        /\ metrics.gunning_fog_index = Zero
        /\ metrics.flesch_kincaid_grade = Zero
        /\ metrics.flesch_reading_ease = Zero
        /\ metrics.smog_index = Zero
        /\ metrics.average_syllables_per_word = Zero
        /\ metrics.average_words_per_sentence = Zero

\* a whitespace-only text has been analyzed
C6_Witness ==
    /\ Returned("analyze_text")
    /\ text = <<32, 32>>
    /\ metrics.word_count = 0
    /\ metrics.gunning_fog_index = Zero

(***************************************************************************)
(* C7: whenever sentence_count is below 30 the smog_index is exactly 0.0.  *)
(***************************************************************************)
C7_SmogGate ==
    (Returned("analyze_text") /\ metrics.sentence_count < 30) =>
        metrics.smog_index = Zero

\* 29 sentences and a complex word
C7_Witness ==
    /\ Returned("analyze_text")
    /\ metrics.sentence_count = 29
    /\ metrics.complex_word_count >= 1
    /\ metrics.smog_index = Zero

(***************************************************************************)
(* C8: in every TextMetrics returned, syllable_count >= word_count.        *)
(***************************************************************************)
C8_SyllablesAtLeastWords ==
    Returned("analyze_text") => metrics.syllable_count >= metrics.word_count

(***************************************************************************)
(* C9: for every word of ASCII letters count_syllables returns             *)
(* max(1, R - E - L) computed over the integers.                           *)
(***************************************************************************)
C9_IntegerEstimate ==
    (Finished("count_syllables") /\ IsAsciiWord(word)) =>
        pc = "returned" /\ syllables = IntegerEstimate(word)

(***************************************************************************)
(* C10: complex_word_count is the number of word tokens whose syllable     *)
(* estimate is >= 3 and whose lowercased form does not end in "ed", "es"   *)
(* or "ing", and it is at most word_count.                                 *)
(***************************************************************************)
C10_ComplexWordCount ==
    Returned("analyze_text") =>
        /\ metrics.complex_word_count =
              Cardinality({i \in 1..Len(tokens) :
                  /\ count_syllables(tokens[i], overflow_checks).value >= 3
                  /\ ~HasInflection(tokens[i])})
        /\ metrics.complex_word_count <= metrics.word_count

\* a complex word and an upper-case word ending in "ED" have been classified
C10_Witness ==
    /\ Returned("analyze_text")
    /\ tokens = <<W_banana, W_ANIMATED>>
    /\ metrics.complex_word_count = 1

====
